---- MODULE Spec2Model ----
(***************************************************************************)
(* The AiGmSleeperStack constructor (infra/lib/ai-gm-stack.ts) as a state  *)
(* machine.  The constructor reads six context values and then declares,   *)
(* statement by statement, one bucket, the Lambda functions, the scheduler *)
(* roles with their invoke grants, the schedules and the stack outputs.    *)
(* One action models one statement; pc is the position in the constructor. *)
(* The state is the context handed to the stack, the constructor's locals  *)
(* and the resources declared so far.                                      *)
(***************************************************************************)
EXTENDS Integers, Sequences, FiniteSets, TLC

VARIABLES
    ctx,            \* the context values (cdk -c key=value / cdk.json)
    pc,             \* the statement the constructor executes next
    username, season, leagueId, rosterEvery, playersPrefix, rosterPrefix,
    baseEnv,        \* the environment shared by the functions
    buckets, functions, bucketGrants, roles, invokeGrants, schedules, outputs

vars == <<ctx, pc, username, season, leagueId, rosterEvery, playersPrefix,
          rosterPrefix, baseEnv, buckets, functions, bucketGrants, roles,
          invokeGrants, schedules, outputs>>

locals == <<username, season, leagueId, rosterEvery, playersPrefix, rosterPrefix>>

resources == <<buckets, functions, bucketGrants, roles, invokeGrants, schedules, outputs>>

----------------------------------------------------------------------------
(* Bounds of the model *)

\* a numeric context value (rosterEvery) is drawn from 0..MaxNumber, as a
\* number (cdk.json) and as its decimal string (cdk -c rosterEvery=N)
MaxNumber == 11

----------------------------------------------------------------------------
(* JavaScript values: undefined, strings and numbers.  A number is NaN or  *)
(* the decimal m / 10^e, with m not divisible by 10 when e > 0.            *)

Undefined == [t |-> "undefined", s |-> "", nan |-> FALSE, m |-> 0, e |-> 0]

Str(s) == [t |-> "string", s |-> s, nan |-> FALSE, m |-> 0, e |-> 0]

RECURSIVE Normal(_, _)
Normal(m, e) ==
    IF e > 0 /\ m % 10 = 0 THEN Normal(m \div 10, e - 1) ELSE <<m, e>>

Dec(m, e) ==
    [t |-> "number", s |-> "", nan |-> FALSE, m |-> Normal(m, e)[1], e |-> Normal(m, e)[2]]

Num(n) == Dec(n, 0)

NaN == [t |-> "number", s |-> "", nan |-> TRUE, m |-> 0, e |-> 0]

IsInteger(v) == v.t = "number" /\ ~v.nan /\ v.e = 0

\* ToBoolean, the test `||` applies to its left operand
Truthy(v) ==
    CASE v.t = "undefined" -> FALSE
      [] v.t = "string" -> v.s # ""
      [] OTHER -> ~v.nan /\ v.m # 0

\* a || b
Or(a, b) == IF Truthy(a) THEN a ELSE b

\* a ?? b
Nullish(a, b) == IF a.t = "undefined" THEN b ELSE a

Char(s, i) == SubSeq(s, i, i)

DigitChars == "0123456789"

IsDigit(c) == \E d \in 1..10 : Char(DigitChars, d) = c

DigitVal(c) == (CHOOSE d \in 1..10 : Char(DigitChars, d) = c) - 1

AllDigits(s) == \A i \in 1..Len(s) : IsDigit(Char(s, i))

RECURSIVE DigitsToNat(_)
DigitsToNat(s) ==
    IF Len(s) = 0 THEN 0
    ELSE DigitsToNat(SubSeq(s, 1, Len(s) - 1)) * 10 + DigitVal(Char(s, Len(s)))

RECURSIVE NatToString(_)
NatToString(n) ==
    IF n < 10 THEN Char(DigitChars, n + 1)
    ELSE NatToString(n \div 10) \o Char(DigitChars, (n % 10) + 1)

RECURSIVE Pow10(_)
Pow10(e) == IF e = 0 THEN 1 ELSE 10 * Pow10(e - 1)

RECURSIVE Trim(_)
Trim(s) ==
    IF Len(s) = 0 THEN s
    ELSE IF Char(s, 1) = " " THEN Trim(SubSeq(s, 2, Len(s)))
    ELSE IF Char(s, Len(s)) = " " THEN Trim(SubSeq(s, 1, Len(s) - 1))
    ELSE s

\* the position of the first "." of s, Len(s) + 1 when there is none
DotPos(s) ==
    IF \E i \in 1..Len(s) : Char(s, i) = "."
    THEN CHOOSE i \in 1..Len(s) :
            Char(s, i) = "." /\ \A j \in 1..(i - 1) : Char(s, j) # "."
    ELSE Len(s) + 1

\* StringToNumber on an unsigned decimal literal (digits, at most one point;
\* exponents, hex literals and Infinity are outside the inputs drawn here)
UnsignedToNumber(s) ==
    LET p    == DotPos(s)
        int  == SubSeq(s, 1, p - 1)
        frac == SubSeq(s, p + 1, Len(s))
    IN  IF AllDigits(int) /\ AllDigits(frac) /\ Len(int) + Len(frac) > 0
        THEN Dec(DigitsToNat(int \o frac), Len(frac))
        ELSE NaN

Negate(v) == IF v.nan THEN v ELSE [v EXCEPT !.m = 0 - v.m]

\* Number(string): white space is trimmed, the empty string is 0, a
\* decimal literal is its value and anything else is NaN
StringToNumber(s) ==
    LET t == Trim(s)
    IN  IF Len(t) = 0 THEN Num(0)
        ELSE IF Char(t, 1) = "-" THEN Negate(UnsignedToNumber(SubSeq(t, 2, Len(t))))
        ELSE IF Char(t, 1) = "+" THEN UnsignedToNumber(SubSeq(t, 2, Len(t)))
        ELSE UnsignedToNumber(t)

\* Number(v)
ToNumber(v) ==
    CASE v.t = "undefined" -> NaN
      [] v.t = "string" -> StringToNumber(v.s)
      [] OTHER -> v

RECURSIVE ZeroPad(_, _)
ZeroPad(s, n) == IF Len(s) >= n THEN s ELSE ZeroPad("0" \o s, n)

\* Number::toString for the magnitudes drawn here (below 1e21, above 1e-7)
NumberToString(v) ==
    IF v.nan THEN "NaN"
    ELSE LET a == IF v.m < 0 THEN 0 - v.m ELSE v.m
             p == Pow10(v.e)
         IN  (IF v.m < 0 THEN "-" ELSE "")
             \o NatToString(a \div p)
             \o (IF v.e > 0 THEN "." \o ZeroPad(NatToString(a % p), v.e) ELSE "")

\* `${v}` in a template literal
TemplateString(v) ==
    CASE v.t = "undefined" -> "undefined"
      [] v.t = "string" -> v.s
      [] OTHER -> NumberToString(v)

\* one member of JSON.stringify({...}): a member whose value is undefined
\* is left out, NaN is written null, a string is quoted (the strings drawn
\* here need no escaping)
JsonMember(key, v) ==
    CASE v.t = "undefined" -> <<>>
      [] v.t = "string" -> << "\"" \o key \o "\":\"" \o v.s \o "\"" >>
      [] OTHER -> << "\"" \o key \o "\":" \o (IF v.nan THEN "null" ELSE NumberToString(v)) >>

RECURSIVE Join(_)
Join(ms) ==
    IF Len(ms) = 0 THEN ""
    ELSE IF Len(ms) = 1 THEN ms[1]
    ELSE ms[1] \o "," \o Join(Tail(ms))

\* JSON.stringify of an object given as its <<key, value>> members in order
RECURSIVE Members(_)
Members(kvs) ==
    IF Len(kvs) = 0 THEN <<>>
    ELSE JsonMember(kvs[1][1], kvs[1][2]) \o Members(Tail(kvs))

JsonStringify(kvs) == "{" \o Join(Members(kvs)) \o "}"

----------------------------------------------------------------------------
(* The context values a deployment can supply.  A value given on the       *)
(* command line (-c key=value) is a string; cdk.json can also hold numbers. *)

UsernameValues == {Undefined, Str(""), Str("alice")}

SeasonValues == {Undefined, Str("2024"), Num(2026)}

LeagueIdValues == {Undefined, Str("L1")}

RosterEveryValues ==
    {Undefined}
    \cup {Num(n) : n \in 0..MaxNumber}
    \cup {Str(NatToString(n)) : n \in 0..MaxNumber}
    \cup {Str(""), Str("-5"), Str("1.5"), Str("abc"), Str(" 7 ")}

PlayersPrefixValues == {Undefined, Str(""), Str("custom/players")}

RosterPrefixValues == {Undefined, Str(""), Str("sleeper/rosters"), Str("custom/rosters")}

Context ==
    [username : UsernameValues, season : SeasonValues, leagueId : LeagueIdValues,
     rosterEvery : RosterEveryValues, playersPrefix : PlayersPrefixValues,
     rosterPrefix : RosterPrefixValues]

\* this.node.tryGetContext(key)
tryGetContext(key) == ctx[key]

----------------------------------------------------------------------------
(* Tokens the CDK resolves at deploy time: a resource's name or ARN is a   *)
(* reference to the construct that declares it.                            *)

bucketName(id) == "${" \o id \o ".Ref}"

functionArn(id) == "${" \o id \o ".Arn}"

functionName(id) == "${" \o id \o ".Ref}"

roleArn(id) == "${" \o id \o ".Arn}"

NoEnv == [k \in {} |-> ""]

NoTimezone == "undefined"

DefaultSeason == 2025

DefaultRosterEvery == 10

Init ==
    /\ ctx \in Context
    /\ pc = "context"
    /\ username = Undefined
    /\ season = Undefined
    /\ leagueId = Undefined
    /\ rosterEvery = Undefined
    /\ playersPrefix = Undefined
    /\ rosterPrefix = Undefined
    /\ baseEnv = NoEnv
    /\ buckets = {}
    /\ functions = {}
    /\ bucketGrants = {}
    /\ roles = {}
    /\ invokeGrants = {}
    /\ schedules = {}
    /\ outputs = {}

\* lines 15-20: the six constants read from the context, with their defaults
ReadContext ==
    /\ pc = "context"
    /\ username' = Or(tryGetContext("username"), Str("YOUR_SLEEPER_USERNAME"))
    /\ season' = ToNumber(Nullish(tryGetContext("season"), Num(DefaultSeason)))
    /\ leagueId' = Or(tryGetContext("leagueId"), Undefined)
    /\ rosterEvery' = ToNumber(Nullish(tryGetContext("rosterEvery"), Num(DefaultRosterEvery)))
    /\ playersPrefix' = Or(tryGetContext("playersPrefix"), Str("sleeper/players"))
    /\ rosterPrefix' = Or(tryGetContext("rosterPrefix"), Str("sleeper_sync"))
    /\ pc' = "bucket"
    /\ UNCHANGED <<ctx, baseEnv, resources>>

\* the bucket as a throw-away stack would declare it
SleeperDataBucketDestroyed ==
    [id |-> "SleeperDataBucket",
     versioned |-> TRUE,
     blockPublicAccess |-> "BLOCK_ALL",
     encryption |-> "S3_MANAGED",
     lifecycleRules |-> {[id |-> "expire-old-versions", noncurrentVersionExpirationDays |-> 90]},
     removalPolicy |-> "DESTROY",
     autoDeleteObjects |-> TRUE]

\* the properties of new s3.Bucket(this, 'SleeperDataBucket', {...})
SleeperDataBucketProps ==
    [id |-> "SleeperDataBucket",
     versioned |-> TRUE,
     blockPublicAccess |-> "BLOCK_ALL",
     encryption |-> "S3_MANAGED",
     lifecycleRules |-> {[id |-> "expire-old-versions", noncurrentVersionExpirationDays |-> 90]},
     removalPolicy |-> "RETAIN",
     autoDeleteObjects |-> FALSE]

SleeperDataBucket ==
    /\ pc = "bucket"
    /\ buckets' = buckets \cup {SleeperDataBucketProps}
    /\ pc' = "baseEnv"
    /\ UNCHANGED <<ctx, locals, baseEnv, functions, bucketGrants, roles,
                   invokeGrants, schedules, outputs>>

\* lines 32-38: const baseEnv
BaseEnvValue ==
    [S3_BUCKET |-> bucketName("SleeperDataBucket"),
     PLAYERS_S3_PREFIX |-> TemplateString(playersPrefix),
     ROSTER_S3_PREFIX |-> TemplateString(rosterPrefix),
     PLAYERS_CACHE_PATH |-> "/tmp/players_nfl.json"]

BaseEnv ==
    /\ pc = "baseEnv"
    /\ baseEnv' = BaseEnvValue
    /\ pc' = "playersFn"
    /\ UNCHANGED <<ctx, locals, resources>>

\* { ...env, key: value }
Spread(env, key, value) ==
    [k \in DOMAIN env \cup {key} |-> IF k = key THEN value ELSE env[k]]

PlayersSyncFnProps ==
    [id |-> "PlayersSyncFn",
     index |-> "sleeper_sync.py",
     handler |-> "players_lambda_handler",
     runtime |-> "PYTHON_3_12",
     architecture |-> "ARM_64",
     memorySize |-> 512,
     timeout |-> 120,
     environment |-> baseEnv,
     logRetention |-> "ONE_WEEK"]

PlayersSyncFn ==
    /\ pc = "playersFn"
    /\ functions' = functions \cup {PlayersSyncFnProps}
    /\ pc' = "rosterFn"
    /\ UNCHANGED <<ctx, locals, baseEnv, buckets, bucketGrants, roles,
                   invokeGrants, schedules, outputs>>

\* the roster function with a prefix of its own instead of the shared one
RosterSyncFnOwnPrefix ==
    [id |-> "RosterSyncFn",
     index |-> "sleeper_sync.py",
     handler |-> "roster_lambda_handler",
     runtime |-> "PYTHON_3_12",
     architecture |-> "ARM_64",
     memorySize |-> 512,
     timeout |-> 60,
     environment |-> Spread(Spread(baseEnv, "ROSTER_S3_PREFIX", "sleeper_sync"),
                            "USE_S3_PLAYERS", "1"),
     logRetention |-> "ONE_WEEK"]

RosterSyncFnProps ==
    [id |-> "RosterSyncFn",
     index |-> "sleeper_sync.py",
     handler |-> "roster_lambda_handler",
     runtime |-> "PYTHON_3_12",
     architecture |-> "ARM_64",
     memorySize |-> 512,
     timeout |-> 60,
     environment |-> Spread(baseEnv, "USE_S3_PLAYERS", "1"),
     logRetention |-> "ONE_WEEK"]

RosterSyncFn ==
    /\ pc = "rosterFn"
    /\ functions' = functions \cup {RosterSyncFnProps}
    /\ pc' = "grantPlayers"
    /\ UNCHANGED <<ctx, locals, baseEnv, buckets, bucketGrants, roles,
                   invokeGrants, schedules, outputs>>

\* bucket.grantReadWrite(fn)
grantReadWrite(bucket, fn) == [bucket |-> bucket, grantee |-> fn, access |-> "ReadWrite"]

GrantReadWritePlayers ==
    /\ pc = "grantPlayers"
    /\ bucketGrants' = bucketGrants \cup {grantReadWrite("SleeperDataBucket", "PlayersSyncFn")}
    /\ pc' = "grantRoster"
    /\ UNCHANGED <<ctx, locals, baseEnv, buckets, functions, roles,
                   invokeGrants, schedules, outputs>>

GrantReadWriteRoster ==
    /\ pc = "grantRoster"
    /\ bucketGrants' = bucketGrants \cup {grantReadWrite("SleeperDataBucket", "RosterSyncFn")}
    /\ pc' = "playersRole"
    /\ UNCHANGED <<ctx, locals, baseEnv, buckets, functions, roles,
                   invokeGrants, schedules, outputs>>

\* new iam.Role(this, id, { assumedBy: new iam.ServicePrincipal('scheduler.amazonaws.com') })
SchedulerRole(id) == [id |-> id, assumedBy |-> "scheduler.amazonaws.com"]

\* fn.grantInvoke(role)
grantInvoke(fn, role) == [fn |-> fn, role |-> role]

PlayersSchedulerRole ==
    /\ pc = "playersRole"
    /\ roles' = roles \cup {SchedulerRole("PlayersSchedulerRole")}
    /\ pc' = "playersInvoke"
    /\ UNCHANGED <<ctx, locals, baseEnv, buckets, functions, bucketGrants,
                   invokeGrants, schedules, outputs>>

PlayersGrant == grantInvoke("PlayersSyncFn", "PlayersSchedulerRole")

PlayersGrantInvoke ==
    /\ pc = "playersInvoke"
    /\ invokeGrants' = invokeGrants \cup {PlayersGrant}
    /\ pc' = "playersSchedule"
    /\ UNCHANGED <<ctx, locals, baseEnv, buckets, functions, bucketGrants,
                   roles, schedules, outputs>>

\* the players schedule without its timezone (the cron is then read in UTC)
PlayersDailyScheduleNoTimezone ==
    [id |-> "PlayersDailySchedule",
     flexibleTimeWindow |-> "OFF",
     scheduleExpressionTimezone |-> NoTimezone,
     scheduleExpression |-> "cron(5 6 * * ? *)",
     target |-> [arn |-> functionArn("PlayersSyncFn"),
                 roleArn |-> roleArn("PlayersSchedulerRole"),
                 input |-> JsonStringify(<<>>)],
     description |-> "Daily Sleeper players map sync (timezone aware)"]

PlayersDailyScheduleProps ==
    [id |-> "PlayersDailySchedule",
     flexibleTimeWindow |-> "OFF",
     scheduleExpressionTimezone |-> "America/Los_Angeles",
     scheduleExpression |-> "cron(5 6 * * ? *)",
     target |-> [arn |-> functionArn("PlayersSyncFn"),
                 roleArn |-> roleArn("PlayersSchedulerRole"),
                 input |-> JsonStringify(<<>>)],
     description |-> "Daily Sleeper players map sync (timezone aware)"]

PlayersDailySchedule ==
    /\ pc = "playersSchedule"
    /\ schedules' = schedules \cup {PlayersDailyScheduleProps}
    /\ pc' = "rosterRole"
    /\ UNCHANGED <<ctx, locals, baseEnv, buckets, functions, bucketGrants,
                   roles, invokeGrants, outputs>>

RosterSchedulerRole ==
    /\ pc = "rosterRole"
    /\ roles' = roles \cup {SchedulerRole("RosterSchedulerRole")}
    /\ pc' = "rosterInvoke"
    /\ UNCHANGED <<ctx, locals, baseEnv, buckets, functions, bucketGrants,
                   invokeGrants, schedules, outputs>>

\* the roster function's invoke permission granted to the players role
RosterGrantWrongRole == grantInvoke("RosterSyncFn", "PlayersSchedulerRole")

RosterGrant == grantInvoke("RosterSyncFn", "RosterSchedulerRole")

RosterGrantInvoke ==
    /\ pc = "rosterInvoke"
    /\ invokeGrants' = invokeGrants \cup {RosterGrant}
    /\ pc' = "rosterSchedule"
    /\ UNCHANGED <<ctx, locals, baseEnv, buckets, functions, bucketGrants,
                   roles, schedules, outputs>>

\* `rate(${rosterEvery} minutes)`
RosterScheduleExpression == "rate(" \o TemplateString(rosterEvery) \o " minutes)"

\* a description that does not follow rosterEvery
RosterScheduleDescriptionFixed == "Roster sync every 10 minutes"

\* `Roster sync every ${rosterEvery} minutes`
RosterScheduleDescription == "Roster sync every " \o TemplateString(rosterEvery) \o " minutes"

RosterEveryNMinutesProps ==
    [id |-> "RosterEveryNMinutes",
     flexibleTimeWindow |-> "OFF",
     scheduleExpressionTimezone |-> NoTimezone,
     scheduleExpression |-> RosterScheduleExpression,
     target |-> [arn |-> functionArn("RosterSyncFn"),
                 roleArn |-> roleArn("RosterSchedulerRole"),
                 input |-> JsonStringify(<< <<"username", username>>,
                                            <<"season", season>>,
                                            <<"league_id", leagueId>> >>)],
     description |-> RosterScheduleDescription]

\* the roster schedule declared only for a username given in the context
RosterEveryNMinutesIfUsername ==
    /\ pc = "rosterSchedule"
    /\ schedules' = IF Truthy(ctx.username)
                    THEN schedules \cup {RosterEveryNMinutesProps}
                    ELSE schedules
    /\ pc' = "outputs"
    /\ UNCHANGED <<ctx, locals, baseEnv, buckets, functions, bucketGrants,
                   roles, invokeGrants, outputs>>

\* lines 85-90: the roster schedule is declared unconditionally
RosterEveryNMinutes ==
    /\ pc = "rosterSchedule"
    /\ schedules' = schedules \cup {RosterEveryNMinutesProps}
    /\ pc' = "outputs"
    /\ UNCHANGED <<ctx, locals, baseEnv, buckets, functions, bucketGrants,
                   roles, invokeGrants, outputs>>

\* lines 92-94: the three CfnOutputs
StackOutputs ==
    {[id |-> "BucketName", value |-> bucketName("SleeperDataBucket")],
     [id |-> "PlayersFnName", value |-> functionName("PlayersSyncFn")],
     [id |-> "RosterFnName", value |-> functionName("RosterSyncFn")]}

Outputs ==
    /\ pc = "outputs"
    /\ outputs' = outputs \cup StackOutputs
    /\ pc' = "done"
    /\ UNCHANGED <<ctx, locals, baseEnv, buckets, functions, bucketGrants,
                   roles, invokeGrants, schedules>>

Next ==
    \/ ReadContext
    \/ SleeperDataBucket
    \/ BaseEnv
    \/ PlayersSyncFn
    \/ RosterSyncFn
    \/ GrantReadWritePlayers
    \/ GrantReadWriteRoster
    \/ PlayersSchedulerRole
    \/ PlayersGrantInvoke
    \/ PlayersDailySchedule
    \/ RosterSchedulerRole
    \/ RosterGrantInvoke
    \/ RosterEveryNMinutes
    \/ Outputs

Spec == Init /\ [][Next]_vars

Done == pc = "done"

----------------------------------------------------------------------------
(* Reading the emitted declarations *)

\* schedule s targets a declared function whose entry handler is h
TargetsHandler(s, h) ==
    \E f \in functions : f.handler = h /\ s.target.arn = functionArn(f.id)

\* the schedules whose target is a function with entry handler h
SchedulesFor(h) == {s \in schedules : TargetsHandler(s, h)}

StartsWith(s, p) == Len(s) >= Len(p) /\ SubSeq(s, 1, Len(p)) = p

EndsWith(s, p) == Len(s) >= Len(p) /\ SubSeq(s, Len(s) - Len(p) + 1, Len(s)) = p

\* text is prefix \o X \o suffix: X
Between(text, prefix, suffix) == SubSeq(text, Len(prefix) + 1, Len(text) - Len(suffix))

Wraps(text, prefix, suffix) ==
    /\ Len(text) >= Len(prefix) + Len(suffix)
    /\ StartsWith(text, prefix)
    /\ EndsWith(text, suffix)

\* the fields of a text separated by single spaces
RECURSIVE Fields(_)
Fields(s) ==
    IF \E i \in 1..Len(s) : Char(s, i) = " "
    THEN LET i == CHOOSE i \in 1..Len(s) :
                     Char(s, i) = " " /\ \A j \in 1..(i - 1) : Char(s, j) # " "
         IN  <<SubSeq(s, 1, i - 1)>> \o Fields(SubSeq(s, i + 1, Len(s)))
    ELSE <<s>>

IsNumeral(s) == Len(s) > 0 /\ AllDigits(s)

\* a scheduler cron expression that fires exactly once a day, at hh:mm
CronDailyAt(expr, hh, mm) ==
    /\ Wraps(expr, "cron(", ")")
    /\ LET f == Fields(Between(expr, "cron(", ")"))
       IN  /\ Len(f) = 6
           /\ IsNumeral(f[1]) /\ DigitsToNat(f[1]) = mm
           /\ IsNumeral(f[2]) /\ DigitsToNat(f[2]) = hh
           /\ f[3] = "*" /\ f[4] = "*" /\ f[5] = "?" /\ f[6] = "*"

\* a scheduler expression that fires once an hour
Hourly(expr) ==
    \/ /\ Wraps(expr, "cron(", ")")
       /\ LET f == Fields(Between(expr, "cron(", ")"))
          IN  /\ Len(f) = 6
              /\ IsNumeral(f[1])
              /\ f[2] = "*" /\ f[3] = "*" /\ f[4] = "*" /\ f[5] = "?" /\ f[6] = "*"
    \/ expr \in {"rate(1 hour)", "rate(1 hours)", "rate(60 minutes)"}

Supplied(key) == ctx[key] # Undefined

AllSupplied ==
    /\ \A k \in DOMAIN ctx : Supplied(k)
    /\ Truthy(ctx.username)

PastContext == pc # "context"

----------------------------------------------------------------------------
(* The claims *)

\* C1: once the stack is declared, a schedule targeting the roster sync
\* function (roster_lambda_handler) exists if and only if a non-empty
\* username was supplied as a context value; the roster function is
\* declared either way.
C1_RosterScheduleIffUsername ==
    Done =>
        /\ (SchedulesFor("roster_lambda_handler") # {}) <=> Truthy(ctx.username)
        /\ \E f \in functions : f.handler = "roster_lambda_handler"

\* C2: once the stack is declared, it holds exactly three functions, one for
\* each of the handlers players_lambda_handler, roster_lambda_handler and
\* roster_scheduler_handler, each with a memory size and a timeout.
C2_ThreeFunctions ==
    Done =>
        /\ Cardinality(functions) = 3
        /\ {f.handler : f \in functions} =
              {"players_lambda_handler", "roster_lambda_handler", "roster_scheduler_handler"}
        /\ \A f \in functions : f.memorySize > 0 /\ f.timeout > 0

\* C3: once the stack is declared, whatever the context, there is an hourly
\* schedule whose target is the orchestrator function
\* (roster_scheduler_handler), invoked with the empty payload {}.
C3_HourlyOrchestratorSchedule ==
    Done =>
        \E s \in SchedulesFor("roster_scheduler_handler") :
            Hourly(s.scheduleExpression) /\ s.target.input = "{}"

C5_BucketSettings ==
    pc \notin {"context", "bucket"} =>
        /\ Cardinality(buckets) = 1
        /\ \A b \in buckets :
              /\ b.versioned
              /\ b.encryption \in {"S3_MANAGED", "KMS_MANAGED", "KMS"}
              /\ \E r \in b.lifecycleRules : r.noncurrentVersionExpirationDays = 90
              /\ \A r \in b.lifecycleRules : r.noncurrentVersionExpirationDays = 90
              /\ b.removalPolicy = "RETAIN"
              /\ ~b.autoDeleteObjects

C5_Witness ==
    /\ Done
    /\ AllSupplied
    /\ ctx.rosterEvery = Str("5")
    /\ Cardinality(buckets) = 1

\* C6: for every context, the declared stack holds exactly one schedule
\* targeting the players function; it fires once a day at 06:05 in the
\* timezone America/Los_Angeles with the empty payload {}, and no schedule
\* declared at any point targets the players function otherwise.
C6_PlayersDailySchedule ==
    /\ Done => Cardinality(SchedulesFor("players_lambda_handler")) = 1
    /\ \A s \in SchedulesFor("players_lambda_handler") :
          /\ CronDailyAt(s.scheduleExpression, 6, 5)
          /\ s.scheduleExpressionTimezone = "America/Los_Angeles"
          /\ s.target.input = "{}"

C6_Witness ==
    /\ Done
    /\ AllSupplied
    /\ ctx.rosterEvery = Str("1")
    /\ ctx.rosterPrefix = Str("custom/rosters")
    /\ SchedulesFor("players_lambda_handler") # {}

\* C7: a parameter that is not supplied takes its documented default: every
\* function's ROSTER_S3_PREFIX is sleeper/rosters without a rosterPrefix,
\* PLAYERS_S3_PREFIX is sleeper/players without a playersPrefix and the
\* roster interval is 10 minutes without a rosterEvery.
C7_DocumentedDefaults ==
    /\ \A f \in functions :
          /\ ~Supplied("rosterPrefix") => f.environment.ROSTER_S3_PREFIX = "sleeper/rosters"
          /\ ~Supplied("playersPrefix") => f.environment.PLAYERS_S3_PREFIX = "sleeper/players"
    /\ (PastContext /\ ~Supplied("rosterEvery")) => rosterEvery = Num(10)

C9_ScheduleRolesCanInvoke ==
    \A s \in schedules :
        \E r \in roles, f \in functions :
            /\ s.target.roleArn = roleArn(r.id)
            /\ s.target.arn = functionArn(f.id)
            /\ r.assumedBy = "scheduler.amazonaws.com"
            /\ grantInvoke(f.id, r.id) \in invokeGrants
            /\ \A g \in invokeGrants : g.role = r.id => g.fn = f.id

C9_Witness ==
    /\ Done
    /\ Cardinality(schedules) = 2
    /\ Cardinality(invokeGrants) = 2

\* the roster schedules and the interval text of expression and description
RosterSchedules == {s \in schedules : s.id = "RosterEveryNMinutes"}

RateInterval(s) == Between(s.scheduleExpression, "rate(", " minutes)")

DescribedInterval(s) == Between(s.description, "Roster sync every ", " minutes")

WellFormedRate(s) ==
    /\ Wraps(s.scheduleExpression, "rate(", " minutes)")
    /\ Wraps(s.description, "Roster sync every ", " minutes")
    /\ RateInterval(s) = DescribedInterval(s)

PositiveWhole(text) == IsNumeral(text) /\ DigitsToNat(text) > 0

\* the context gives rosterEvery as the positive whole number n, or as its digits
SuppliedAs(n) == ctx.rosterEvery \in {Num(n), Str(NatToString(n))}

\* C10 (as stated): the roster schedule's expression is a fixed rate of a
\* positive whole number of minutes, for every rosterEvery that can be
\* supplied, and the description states the same interval.
C10_PositiveWholeInterval ==
    \A s \in RosterSchedules : WellFormedRate(s) /\ PositiveWhole(RateInterval(s))

\* C10 (amended): the roster schedule's expression is rate(N minutes) and its
\* description states the same N, the text of Number(rosterEvery ?? 10): N is
\* 10 when rosterEvery is not supplied and n when it is supplied as the
\* positive whole number n; N is a positive whole number only when the
\* supplied value converts to one (0, a negative, a fraction and NaN are
\* written as they are).
C10_IntervalIsConvertedRosterEvery ==
    \A s \in RosterSchedules :
        /\ WellFormedRate(s)
        /\ ~Supplied("rosterEvery") => RateInterval(s) = "10"
        /\ \A n \in 1..(MaxNumber + 1) :
              SuppliedAs(n) =>
                  PositiveWhole(RateInterval(s)) /\ DigitsToNat(RateInterval(s)) = n
        /\ ctx.rosterEvery \in {Num(0), Str("0"), Str(""), Str("-5"), Str("1.5"), Str("abc")} =>
              ~PositiveWhole(RateInterval(s))

C10_Witness ==
    /\ Done
    /\ RosterSchedules # {}
    /\ SuppliedAs(5)
    /\ \A s \in RosterSchedules : RateInterval(s) = "5"

====
